---- MODULE Spec2Model ----
(***************************************************************************)
(* Model of the stock screener (src/app.py): the symbol normalisation and  *)
(* per-symbol metric pipeline of fetch_stock_data, the session-state slot  *)
(* (st.session_state.df / last_updated) written by update_data, and the    *)
(* script's auto-update / refresh-button control flow.                     *)
(*                                                                         *)
(* Strings are sequences of one-character strings.  Floating point values  *)
(* are pairs <<n, d>>: the rational n/d in lowest terms when d > 0, and    *)
(* the IEEE specials when d = 0 (<<1,0>> = +inf, <<-1,0>> = -inf,          *)
(* <<0,0>> = NaN).  Arithmetic is exact except the square root, which is   *)
(* rounded down to a multiple of 1/SqrtScale when it is irrational.        *)
(***************************************************************************)
EXTENDS Integers, Sequences, FiniteSets, TLC

VARIABLES
    ticker_input,   \* value of the st.text_input widget (raw string)
    provider,       \* what yfinance answers, per canonical symbol
    df,             \* st.session_state.df : sequence of rows
    last_updated,   \* st.session_state.last_updated
    new_df,         \* value returned by the latest fetch_stock_data call
    errors,         \* st.error messages emitted by the latest fetch_stock_data call
    pc,             \* position of the script run
    button,         \* st.button("Refresh Now") value of the current script run
    auto_ran,       \* the current script run took the auto-update branch
    nfetch,         \* number of update_data calls so far
    run_pc,         \* per concurrent run: position inside update_data
    run_tickers,    \* per concurrent run: ticker_list
    run_i,          \* per concurrent run: loop index in fetch_stock_data
    run_data,       \* per concurrent run: local list `data`
    run_writes,     \* per concurrent run: number of writes to session_state.df
    produced,       \* every table returned so far by fetch_stock_data
    clock           \* wall clock, in half seconds

vars == <<ticker_input, provider, df, last_updated, new_df, errors, pc, button,
          auto_ran, nfetch, run_pc, run_tickers, run_i, run_data, run_writes,
          produced, clock>>

(***************************************************************************)
(* Bounds of the model                                                     *)
(***************************************************************************)
MaxLen == 4        \* longest raw input string of the fetch specification
MaxPrice == 2      \* prices of generated bars range over 0..MaxPrice
SqrtScale == 16    \* irrational square roots are rounded down to 1/SqrtScale
MaxTime == 2       \* wall-clock readings range over 0..MaxTime
MaxFetch == 3      \* update_data calls per behaviour of the session specification

(***************************************************************************)
(* Floating point                                                          *)
(***************************************************************************)
Abs(n) == IF n < 0 THEN -n ELSE n

Sign(n) == IF n < 0 THEN -1 ELSE IF n > 0 THEN 1 ELSE 0

RECURSIVE Gcd(_, _)
Gcd(a, b) == IF b = 0 THEN a ELSE Gcd(b, a % b)

NaN == <<0, 0>>

Inf == <<1, 0>>

Num(k) == <<k, 1>>

IsNaN(x) == x = NaN

IsFinite(x) == x[2] > 0

Norm(n, d) ==
    IF d = 0 THEN <<Sign(n), 0>>
    ELSE LET s == IF d < 0 THEN -1 ELSE 1
             g == Gcd(Abs(n), Abs(d))
         IN  <<(s * n) \div g, (s * d) \div g>>

FNeg(x) == <<-x[1], x[2]>>

FAdd(x, y) ==
    IF IsNaN(x) \/ IsNaN(y) THEN NaN
    ELSE IF ~IsFinite(x) THEN (IF ~IsFinite(y) /\ y # x THEN NaN ELSE x)
    ELSE IF ~IsFinite(y) THEN y
    ELSE Norm(x[1] * y[2] + y[1] * x[2], x[2] * y[2])

FSub(x, y) == FAdd(x, FNeg(y))

FMul(x, y) == Norm(x[1] * y[1], x[2] * y[2])

\* numpy float64 division: x/0 is +-inf (nan for 0/0) with a RuntimeWarning, no exception
FDiv(x, y) ==
    LET r == IF y[1] < 0 THEN <<-y[2], -y[1]>> ELSE <<y[2], y[1]>>
    IN  FMul(x, r)

FLess(x, y) == IsFinite(x) /\ IsFinite(y) /\ x[1] * y[2] < y[1] * x[2]

RECURSIVE ISqrtIn(_, _, _)
ISqrtIn(n, lo, hi) ==
    IF lo >= hi THEN lo
    ELSE LET mid == (lo + hi + 1) \div 2
         IN  IF mid * mid <= n THEN ISqrtIn(n, mid, hi) ELSE ISqrtIn(n, lo, mid - 1)

ISqrt(n) == ISqrtIn(n, 0, IF n < 46340 THEN n ELSE 46340)

FSqrt(x) ==
    IF IsNaN(x) \/ x[1] < 0 THEN NaN
    ELSE IF ~IsFinite(x) THEN x
    ELSE Norm(ISqrt(x[1] * x[2] * SqrtScale * SqrtScale), x[2] * SqrtScale)

(***************************************************************************)
(* Strings                                                                 *)
(***************************************************************************)
Alphabet == {"a", "B", " ", ","}

upper_char(c) == IF c = "a" THEN "A" ELSE c

upper(s) == [k \in 1..Len(s) |-> upper_char(s[k])]

RECURSIVE lstrip(_)
lstrip(s) == IF s # <<>> /\ Head(s) = " " THEN lstrip(Tail(s)) ELSE s

RECURSIVE rstrip(_)
rstrip(s) ==
    IF s # <<>> /\ s[Len(s)] = " " THEN rstrip(SubSeq(s, 1, Len(s) - 1)) ELSE s

strip(s) == rstrip(lstrip(s))

\* str.split(","): always at least one token, empty tokens kept
RECURSIVE split(_)
split(s) ==
    IF \A k \in 1..Len(s) : s[k] # ","
    THEN <<s>>
    ELSE LET c == CHOOSE k \in 1..Len(s) : s[k] = "," /\ \A j \in 1..(k - 1) : s[j] # ","
         IN  <<SubSeq(s, 1, c - 1)>> \o split(SubSeq(s, c + 1, Len(s)))

(***************************************************************************)
(* The data provider (yfinance), per canonical symbol                      *)
(***************************************************************************)
Window == 20

NoCap == [present |-> FALSE, value |-> 0]

Cap(v) == [present |-> TRUE, value |-> v]

Prices == 0..MaxPrice

\* a daily bar; the Open column is never read by the program
Bars == [Low : Prices, High : Prices, Close : Prices]

Bar(l, h, c) == [Low |-> l, High |-> h, Close |-> c]

\* n bars: n-1 copies of base, then last
SeriesOf(n, base, last) == [k \in 1..n |-> IF k = n THEN last ELSE base]

BarCounts == {1, Window - 1, Window, Window + 1}

\* 20 closes with mean 4 and sample standard deviation 2
ZeroBandCloses == <<7, 1, 6, 6, 6, 6, 6, 6, 6, 2, 2, 2, 2, 2, 2, 2, 5, 3, 4, 4>>

ZeroBandSeries == [k \in 1..Window |-> Bar(1, 7, ZeroBandCloses[k])]

Answer(h, cap) == [raises |-> FALSE, hist |-> h, marketCap |-> cap]

Raises == [raises |-> TRUE, hist |-> <<>>, marketCap |-> NoCap]

NotFound == Answer(<<>>, NoCap)

GoodSeries == SeriesOf(Window + 1, Bar(1, 2, 1), Bar(1, 2, 2))

ShortSeries == SeriesOf(Window - 1, Bar(1, 2, 2), Bar(1, 2, 1))

KnownSymbols == {<<"A">>, <<"B">>}

\* ticker.history / ticker.info for a symbol; unknown symbols have no data
Lookup(world, symbol) ==
    IF symbol \in DOMAIN world THEN world[symbol] ELSE NotFound

(***************************************************************************)
(* fetch_stock_data                                                        *)
(***************************************************************************)
RECURSIVE SumSeq(_)
SumSeq(s) == IF s = <<>> THEN 0 ELSE Head(s) + SumSeq(Tail(s))

Column(hist, name) == [k \in 1..Len(hist) |-> hist[k][name]]

SeqMin(s) == CHOOSE m \in {s[k] : k \in 1..Len(s)} : \A k \in 1..Len(s) : m <= s[k]

SeqMax(s) == CHOOSE m \in {s[k] : k \in 1..Len(s)} : \A k \in 1..Len(s) : m >= s[k]

LastWindow(s) == SubSeq(s, Len(s) - Window + 1, Len(s))

\* Series.rolling(window=20).mean().iloc[-1]
rolling_mean_last(s) ==
    IF Len(s) < Window THEN NaN
    ELSE Norm(SumSeq(LastWindow(s)), Window)

\* Series.rolling(window=20).std().iloc[-1]  (sample deviation, ddof = 1)
rolling_std_last(s) ==
    IF Len(s) < Window THEN NaN
    ELSE LET w  == LastWindow(s)
             S  == SumSeq(w)
             Q  == SumSeq([k \in 1..Window |-> w[k] * w[k]])
         IN  FSqrt(Norm(Window * Q - S * S, Window * (Window - 1)))

\* lines 43-47
bb_low_of(closes) ==
    FSub(rolling_mean_last(closes), FMul(Num(2), rolling_std_last(closes)))

bb_high_of(closes) ==
    FAdd(rolling_mean_last(closes), FMul(Num(2), rolling_std_last(closes)))

\* mutant of pct_from: the operands of the difference are exchanged
pct_from_swapped(price, ref) == FMul(FDiv(FSub(ref, price), ref), Num(100))

pct_from(price, ref) == FMul(FDiv(FSub(price, ref), ref), Num(100))

\* lines 29-63: the row built from a non-empty history
compute_row(symbol, hist, cap) ==
    LET current_price == Num(hist[Len(hist)].Close)
        low_52w  == Num(SeqMin(Column(hist, "Low")))
        high_52w == Num(SeqMax(Column(hist, "High")))
        bb_low   == bb_low_of(Column(hist, "Close"))
        bb_high  == bb_high_of(Column(hist, "Close"))
    IN  [Symbol        |-> symbol,
         CurrentPrice  |-> current_price,
         MarketCap     |-> cap,
         Low52W        |-> low_52w,
         High52W       |-> high_52w,
         PctFrom52WLow  |-> pct_from(current_price, low_52w),
         PctFrom52WHigh |-> pct_from(current_price, high_52w),
         PctFromBBLow   |-> pct_from(current_price, bb_low),
         PctFromBBHigh  |-> pct_from(current_price, bb_high)]

\* lines 18-67: one symbol; what is appended to data and what st.error shows
process_symbol(symbol, answer) ==
    IF answer.raises
    THEN [rows |-> <<>>, errs |-> <<[symbol |-> symbol, msg |-> "Error fetching"]>>]
    ELSE IF answer.hist = <<>>
    THEN [rows |-> <<>>, errs |-> <<[symbol |-> symbol, msg |-> "No data found"]>>]
    ELSE [rows |-> <<compute_row(symbol, answer.hist, answer.marketCap)>>, errs |-> <<>>]

\* mutant of loop_body: a new row is put in front of the rows collected so far
loop_body_prepends(tickers, i, acc, world) ==
    LET symbol == upper(strip(tickers[i]))
    IN  IF symbol = <<>> THEN acc
        ELSE LET r == process_symbol(symbol, Lookup(world, symbol))
             IN  [rows |-> r.rows \o acc.rows, errs |-> acc.errs \o r.errs]

\* lines 13-67: one pass of the loop body over tickers[i]
loop_body(tickers, i, acc, world) ==
    LET symbol == upper(strip(tickers[i]))
    IN  IF symbol = <<>> THEN acc
        ELSE LET r == process_symbol(symbol, Lookup(world, symbol))
             IN  [rows |-> acc.rows \o r.rows, errs |-> acc.errs \o r.errs]

\* mutant of fetch_loop: the first failing symbol ends the loop
RECURSIVE fetch_loop_aborts(_, _, _, _)
fetch_loop_aborts(tickers, i, acc, world) ==
    IF i > Len(tickers) \/ acc.errs # <<>> THEN acc
    ELSE fetch_loop_aborts(tickers, i + 1, loop_body(tickers, i, acc, world), world)

RECURSIVE fetch_loop(_, _, _, _)
fetch_loop(tickers, i, acc, world) ==
    IF i > Len(tickers) THEN acc
    ELSE fetch_loop(tickers, i + 1, loop_body(tickers, i, acc, world), world)

fetch_stock_data(tickers, world) ==
    fetch_loop(tickers, 1, [rows |-> <<>>, errs |-> <<>>], world)

(***************************************************************************)
(* Inputs                                                                  *)
(***************************************************************************)
RECURSIVE StringsUpTo(_)
StringsUpTo(n) ==
    IF n = 0 THEN {<<>>}
    ELSE LET shorter == StringsUpTo(n - 1)
         IN  shorter \cup {Append(s, c) : s \in {t \in shorter : Len(t) = n - 1}, c \in Alphabet}

RawInputs == StringsUpTo(MaxLen)

SmallAnswers ==
    {Raises, NotFound, Answer(GoodSeries, Cap(1)), Answer(ShortSeries, NoCap)}

World(a, b) == [s \in KnownSymbols |-> IF s = <<"A">> THEN a ELSE b]

Worlds == [KnownSymbols -> SmallAnswers]

GeneratedSeries == {SeriesOf(n, b, l) : n \in BarCounts, b \in Bars, l \in Bars}

IndicatorWorlds ==
    {World(Answer(h, NoCap), NotFound) : h \in GeneratedSeries \cup {ZeroBandSeries}}

IndicatorInputs == {<<"a">>, <<" ", "a", ",", "B">>}

SessionInputs == {<<"a", ",", "B">>, <<"B">>, <<" ", ",">>}

SessionWorlds ==
    {World(NotFound, NotFound), World(Answer(GoodSeries, Cap(1)), NotFound),
     World(Raises, Answer(GoodSeries, NoCap)),
     World(Answer(GoodSeries, Cap(1)), Answer(ShortSeries, NoCap))}

Runs == {1, 2}

Never == "Never"

\* datetime.now().strftime("%Y-%m-%d %I:%M:%S %p"): the sub-second part is dropped
strftime(t) == ToString(t \div 2)

EmptyAcc == [rows |-> <<>>, errs |-> <<>>]

(***************************************************************************)
(* Session state and the script                                            *)
(***************************************************************************)
\* lines 73-76, before the first script run
SessionSetup ==
    /\ df = <<>>
    /\ last_updated = Never

Idle ==
    /\ new_df = <<>>
    /\ errors = <<>>
    /\ button = FALSE
    /\ auto_ran = FALSE
    /\ nfetch = 0
    /\ run_pc = [r \in Runs |-> "start"]
    /\ run_tickers = [r \in Runs |-> <<>>]
    /\ run_i = [r \in Runs |-> 1]
    /\ run_data = [r \in Runs |-> EmptyAcc]
    /\ run_writes = [r \in Runs |-> 0]
    /\ produced = {}
    /\ clock = 0

RunVars == <<run_pc, run_tickers, run_i, run_data, run_writes, produced>>

\* mutant of update_data: the table is stored without the emptiness test
update_data_overwrites(world, now) ==
    LET r == fetch_stock_data(split(ticker_input), world)
    IN  /\ nfetch < MaxFetch
        /\ now >= clock
        /\ nfetch' = nfetch + 1
        /\ provider' = world
        /\ clock' = now
        /\ new_df' = r.rows
        /\ errors' = r.errs
        /\ df' = r.rows
        /\ last_updated' = strftime(now)

\* mutant of update_data: the timestamp is written outside the emptiness test
update_data_stamps_always(world, now) ==
    LET r == fetch_stock_data(split(ticker_input), world)
    IN  /\ nfetch < MaxFetch
        /\ now >= clock
        /\ nfetch' = nfetch + 1
        /\ provider' = world
        /\ clock' = now
        /\ new_df' = r.rows
        /\ errors' = r.errs
        /\ df' = (IF r.rows # <<>> THEN r.rows ELSE df)
        /\ last_updated' = strftime(now)

\* lines 86-94, with the provider's answers and the clock reading as inputs
update_data(world, now) ==
    LET r == fetch_stock_data(split(ticker_input), world)
    IN  /\ nfetch < MaxFetch
        /\ now >= clock
        /\ nfetch' = nfetch + 1
        /\ provider' = world
        /\ clock' = now
        /\ new_df' = r.rows
        /\ errors' = r.errs
        /\ IF r.rows # <<>>
           THEN /\ df' = r.rows
                /\ last_updated' = strftime(now)
           ELSE UNCHANGED <<df, last_updated>>

\* a script run starts: the widgets deliver the text and whether the button was clicked
StartRun(text, clicked) ==
    /\ pc = "idle"
    /\ pc' = "auto"
    /\ ticker_input' = text
    /\ button' = clicked
    /\ UNCHANGED <<provider, df, last_updated, new_df, errors, auto_ran, nfetch, clock>>
    /\ UNCHANGED RunVars

\* mutant of AutoUpdate: the automatic load happens on the first fetch only
AutoUpdate_first_load_only ==
    /\ pc = "auto"
    /\ pc' = "control"
    /\ IF df = <<>> /\ nfetch = 0
       THEN /\ auto_ran' = TRUE
            /\ \E world \in SessionWorlds, now \in 0..MaxTime : update_data(world, now)
       ELSE /\ auto_ran' = FALSE
            /\ UNCHANGED <<provider, df, last_updated, new_df, errors, nfetch, clock>>
    /\ UNCHANGED <<ticker_input, button>>
    /\ UNCHANGED RunVars

\* lines 96-100
AutoUpdate ==
    /\ pc = "auto"
    /\ pc' = "control"
    /\ IF df = <<>>
       THEN /\ auto_ran' = TRUE
            /\ \E world \in SessionWorlds, now \in 0..MaxTime : update_data(world, now)
       ELSE /\ auto_ran' = FALSE
            /\ UNCHANGED <<provider, df, last_updated, new_df, errors, nfetch, clock>>
    /\ UNCHANGED <<ticker_input, button>>
    /\ UNCHANGED RunVars

\* lines 102-114: st.rerun() starts the script over with the button released
ControlBar ==
    /\ pc = "control"
    /\ IF button
       THEN /\ \E world \in SessionWorlds, now \in 0..MaxTime : update_data(world, now)
            /\ pc' = "auto"
            /\ button' = FALSE
       ELSE /\ pc' = "display"
            /\ UNCHANGED <<provider, df, last_updated, new_df, errors, nfetch, clock, button>>
    /\ UNCHANGED <<ticker_input, auto_ran>>
    /\ UNCHANGED RunVars

\* lines 116-164: the table is rendered; session state is only read
Display ==
    /\ pc = "display"
    /\ pc' = "idle"
    /\ UNCHANGED <<ticker_input, provider, df, last_updated, new_df, errors, button,
                   auto_ran, nfetch, clock>>
    /\ UNCHANGED RunVars

Init ==
    /\ SessionSetup
    /\ Idle
    /\ pc = "idle"
    /\ ticker_input = <<>>
    /\ provider = World(NotFound, NotFound)

Next ==
    \/ \E text \in SessionInputs, clicked \in BOOLEAN : StartRun(text, clicked)
    \/ AutoUpdate
    \/ ControlBar
    \/ Display

Spec == Init /\ [][Next]_vars

(***************************************************************************)
(* fetch_stock_data on its own: every raw input against every provider     *)
(***************************************************************************)
\* lines 87-88: ticker_list = ticker_input.split(","); new_df = fetch_stock_data(ticker_list)
call_fetch ==
    LET r == fetch_stock_data(split(ticker_input), provider)
    IN  /\ pc = "call"
        /\ pc' = "returned"
        /\ new_df' = r.rows
        /\ errors' = r.errs
        /\ UNCHANGED <<ticker_input, provider, df, last_updated, button, auto_ran,
                       nfetch, clock>>
        /\ UNCHANGED RunVars

InitFetch ==
    /\ SessionSetup
    /\ Idle
    /\ pc = "call"
    /\ ticker_input \in RawInputs
    /\ provider \in Worlds

NextFetch == call_fetch

SpecFetch == InitFetch /\ [][NextFetch]_vars

InitIndicator ==
    /\ SessionSetup
    /\ Idle
    /\ pc = "call"
    /\ ticker_input \in IndicatorInputs
    /\ provider \in IndicatorWorlds

SpecIndicator == InitIndicator /\ [][NextFetch]_vars

(***************************************************************************)
(* Two refresh runs over one report slot, interleaved statement by         *)
(* statement                                                               *)
(***************************************************************************)
SessionVars == <<ticker_input, new_df, errors, pc, button, auto_ran, nfetch, clock>>

\* line 87 and line 11: ticker_list is split off the text, data starts empty
RunCall(r, text) ==
    /\ run_pc[r] = "start"
    /\ run_pc' = [run_pc EXCEPT ![r] = "loop"]
    /\ run_tickers' = [run_tickers EXCEPT ![r] = split(text)]
    /\ run_i' = [run_i EXCEPT ![r] = 1]
    /\ run_data' = [run_data EXCEPT ![r] = EmptyAcc]
    /\ UNCHANGED <<provider, df, last_updated, run_writes, produced>>
    /\ UNCHANGED SessionVars

\* lines 13-67: one iteration of the loop
RunLoop(r) ==
    /\ run_pc[r] = "loop"
    /\ run_i[r] <= Len(run_tickers[r])
    /\ run_data' = [run_data EXCEPT
                      ![r] = loop_body(run_tickers[r], run_i[r], run_data[r], provider)]
    /\ run_i' = [run_i EXCEPT ![r] = run_i[r] + 1]
    /\ UNCHANGED <<provider, df, last_updated, run_pc, run_tickers, run_writes, produced>>
    /\ UNCHANGED SessionVars

\* line 69 and line 88: the table is returned to update_data
RunReturn(r) ==
    /\ run_pc[r] = "loop"
    /\ run_i[r] > Len(run_tickers[r])
    /\ run_pc' = [run_pc EXCEPT ![r] = "check"]
    /\ produced' = produced \cup {run_data[r].rows}
    /\ UNCHANGED <<provider, df, last_updated, run_tickers, run_i, run_data, run_writes>>
    /\ UNCHANGED SessionVars

\* mutant of RunWriteDf: the rows are added to the table already in the slot
RunWriteDf_appends(r) ==
    /\ run_pc[r] = "check"
    /\ IF run_data[r].rows # <<>>
       THEN /\ df' = df \o run_data[r].rows
            /\ run_writes' = [run_writes EXCEPT ![r] = run_writes[r] + 1]
            /\ run_pc' = [run_pc EXCEPT ![r] = "stamp"]
       ELSE /\ run_pc' = [run_pc EXCEPT ![r] = "done"]
            /\ UNCHANGED <<df, run_writes>>
    /\ UNCHANGED <<provider, last_updated, run_tickers, run_i, run_data, produced>>
    /\ UNCHANGED SessionVars

\* lines 91-92
RunWriteDf(r) ==
    /\ run_pc[r] = "check"
    /\ IF run_data[r].rows # <<>>
       THEN /\ df' = run_data[r].rows
            /\ run_writes' = [run_writes EXCEPT ![r] = run_writes[r] + 1]
            /\ run_pc' = [run_pc EXCEPT ![r] = "stamp"]
       ELSE /\ run_pc' = [run_pc EXCEPT ![r] = "done"]
            /\ UNCHANGED <<df, run_writes>>
    /\ UNCHANGED <<provider, last_updated, run_tickers, run_i, run_data, produced>>
    /\ UNCHANGED SessionVars

\* line 94
RunStamp(r, now) ==
    /\ run_pc[r] = "stamp"
    /\ run_pc' = [run_pc EXCEPT ![r] = "done"]
    /\ last_updated' = strftime(now)
    /\ UNCHANGED <<provider, df, run_tickers, run_i, run_data, run_writes, produced>>
    /\ UNCHANGED SessionVars

\* the provider's data changes between two fetches
ProviderChange(world) ==
    /\ provider' = world
    /\ provider # world
    /\ UNCHANGED <<df, last_updated>>
    /\ UNCHANGED RunVars
    /\ UNCHANGED SessionVars

InitConc ==
    /\ SessionSetup
    /\ Idle
    /\ pc = "idle"
    /\ ticker_input = <<>>
    /\ provider \in SessionWorlds

NextConc ==
    \/ \E r \in Runs, text \in SessionInputs : RunCall(r, text)
    \/ \E r \in Runs : RunLoop(r)
    \/ \E r \in Runs : RunReturn(r)
    \/ \E r \in Runs : RunWriteDf(r)
    \/ \E r \in Runs, now \in 0..MaxTime : RunStamp(r, now)
    \/ \E world \in SessionWorlds : ProviderChange(world)

SpecConc == InitConc /\ [][NextConc]_vars

(***************************************************************************)
(* Vocabulary of the properties                                            *)
(***************************************************************************)
\* the normalizer as specified: the text between consecutive commas, each piece cut
\* to the span from its first to its last non-blank character, upper-cased, and
\* dropped when nothing is left
Boundaries(raw) == {0, Len(raw) + 1} \cup {k \in 1..Len(raw) : raw[k] = ","}

Piece(raw, from) ==
    LET to == CHOOSE b \in Boundaries(raw) :
                  b > from /\ \A c \in Boundaries(raw) : c > from => b <= c
        ink == {k \in (from + 1)..(to - 1) : raw[k] # " "}
    IN  IF ink = {} THEN <<>>
        ELSE LET first == CHOOSE k \in ink : \A j \in ink : k <= j
                 last  == CHOOSE k \in ink : \A j \in ink : k >= j
             IN  [k \in 1..(last - first + 1) |->
                     IF raw[first + k - 1] = "a" THEN "A" ELSE raw[first + k - 1]]

RECURSIVE PiecesFrom(_, _)
PiecesFrom(raw, from) ==
    IF from > Len(raw) THEN <<>>
    ELSE LET rest == IF \E b \in Boundaries(raw) : b > from /\ b <= Len(raw)
                     THEN PiecesFrom(raw, CHOOSE b \in Boundaries(raw) :
                              b > from /\ \A c \in Boundaries(raw) : c > from => b <= c)
                     ELSE <<>>
             p == Piece(raw, from)
         IN  (IF p = <<>> THEN <<>> ELSE <<p>>) \o rest

Normalized(raw) == PiecesFrom(raw, 0)

Succeeds(symbol) ==
    /\ ~Lookup(provider, symbol).raises
    /\ Lookup(provider, symbol).hist # <<>>

Succeeding(symbols) == SelectSeq(symbols, LAMBDA t : Succeeds(t))

Failing(symbols) == SelectSeq(symbols, LAMBDA t : ~Succeeds(t))

SymbolsOf(rows) == [k \in 1..Len(rows) |-> rows[k].Symbol]

HistOf(symbol) == Lookup(provider, symbol).hist

HasRow(symbol) == \E k \in 1..Len(new_df) : new_df[k].Symbol = symbol

HasFailure(symbol) == \E k \in 1..Len(errors) : errors[k].symbol = symbol

SymbolSet(raw) == {Normalized(raw)[k] : k \in 1..Len(Normalized(raw))}

PositiveBars(hist) ==
    \A k \in 1..Len(hist) : hist[k].Low > 0 /\ hist[k].High > 0 /\ hist[k].Close > 0

(***************************************************************************)
(* Properties                                                              *)
(***************************************************************************)
\* C1: once the report slot holds a non-empty table, no step empties it, and a
\* refresh run that returns zero rows leaves the slot exactly as it was.
C1_LastGoodRetained ==
    [][df # <<>> =>
          /\ df' # <<>>
          /\ (nfetch' # nfetch /\ new_df' = <<>>) => df' = df]_vars

C1_Witness ==
    /\ df # <<>>
    /\ nfetch >= 2
    /\ new_df = <<>>
    /\ errors # <<>>

\* C2: failing symbols do not stop the batch: the table has one row per succeeding
\* symbol occurrence, one failure is recorded per failing occurrence (in order), and
\* the rows are those obtained by running the succeeding symbols alone.
C2_FailureIsolation ==
    pc = "returned" =>
        LET symbols == Normalized(ticker_input)
        IN  /\ Len(new_df) = Len(Succeeding(symbols))
            /\ Len(errors) = Len(Failing(symbols))
            /\ [k \in 1..Len(errors) |-> errors[k].symbol] = Failing(symbols)
            /\ new_df = fetch_stock_data(Succeeding(symbols), provider).rows

C2_Witness ==
    /\ pc = "returned"
    /\ Len(Normalized(ticker_input)) = 2
    /\ Len(new_df) = 1
    /\ Len(errors) = 1
    /\ errors[1].msg = "No data found"

\* C3: the Symbol column of the returned table is the normalized symbol list
\* restricted to the symbols that succeeded, in input order, duplicates kept.
C3_StableOrdering ==
    pc = "returned" => SymbolsOf(new_df) = Succeeding(Normalized(ticker_input))

C3_Witness ==
    /\ pc = "returned"
    /\ ticker_input = <<"B", ",", " ", "a">>
    /\ SymbolsOf(new_df) = << <<"B">>, <<"A">> >>

\* C4: a symbol whose history is non-empty but shorter than the 20-bar window yields
\* a failure and no row.
C4_ShortSeriesFails ==
    pc = "returned" =>
        \A symbol \in SymbolSet(ticker_input) :
            (Succeeds(symbol) /\ Len(HistOf(symbol)) < Window)
                => (~HasRow(symbol) /\ HasFailure(symbol))

\* C5: the value returned for a batch in which every symbol failed differs from the
\* value returned for a batch with no symbols at all.
C5_NoDataSignalDistinct ==
    (pc = "returned" /\ Normalized(ticker_input) # <<>> /\ Len(new_df) = 0)
        => new_df # fetch_stock_data(split(<<" ", ",">>), provider).rows

\* C6 as claimed: last_updated is "Never" exactly when the slot is empty, and a run
\* changes last_updated if and only if it replaces the report with a non-empty table.
C6_ChangesIffReplaces ==
    [][/\ (last_updated' = Never) <=> (df' = <<>>)
       /\ nfetch' # nfetch =>
              ((last_updated' # last_updated) <=> (new_df' # <<>> /\ df' = new_df'))]_vars

\* C6 as amended: last_updated is "Never" exactly when the slot is empty; a run that
\* returns rows stores them and a timestamp, a run that returns none changes neither,
\* and last_updated changes only in a run that replaces the report (the new
\* timestamp may equal the old one).
C6_TimestampConsistency ==
    /\ []((last_updated = Never) <=> (df = <<>>))
    /\ [][/\ nfetch' = nfetch => last_updated' = last_updated
          /\ nfetch' # nfetch =>
                 /\ new_df' # <<>> => (df' = new_df' /\ last_updated' = strftime(clock'))
                 /\ new_df' = <<>> => (df' = df /\ last_updated' = last_updated)
                 /\ last_updated' # last_updated => (new_df' # <<>> /\ df' = new_df')]_vars

C6_Witness ==
    /\ nfetch >= 2
    /\ new_df # <<>>
    /\ df = new_df
    /\ last_updated = strftime(clock)

\* C7: a series whose 52-week low, lower band or upper band is exactly zero yields a
\* failure and no row.
C7_ZeroDenominatorFails ==
    pc = "returned" =>
        \A symbol \in SymbolSet(ticker_input) :
            (/\ Succeeds(symbol)
             /\ \/ SeqMin(Column(HistOf(symbol), "Low")) = 0
                \/ bb_low_of(Column(HistOf(symbol), "Close")) = Num(0)
                \/ bb_high_of(Column(HistOf(symbol), "Close")) = Num(0))
                => (~HasRow(symbol) /\ HasFailure(symbol))

RowFromLowHolds(row, hist) ==
    /\ row.CurrentPrice = Num(hist[Len(hist)].Close)
    /\ row.Low52W = Num(SeqMin(Column(hist, "Low")))
    /\ ~FLess(row.CurrentPrice, row.Low52W)
    /\ IsFinite(row.PctFrom52WLow)
    /\ ~FLess(row.PctFrom52WLow, Num(0))
    /\ (row.PctFrom52WLow = Num(0)) <=> (hist[Len(hist)].Close = SeqMin(Column(hist, "Low")))

\* C8 as claimed: every row computed from bars with positive low, high and close has
\* current price >= 52-week low, so a percentage from the low that is >= 0, and = 0
\* exactly when the last close is the minimum low.
C8_NonNegativeForPositiveBars ==
    pc = "returned" =>
        \A k \in 1..Len(new_df) :
            PositiveBars(HistOf(new_df[k].Symbol))
                => RowFromLowHolds(new_df[k], HistOf(new_df[k].Symbol))

\* C8 as amended: the same, for series whose last bar also has low <= close.
C8_NonNegativeFromLow ==
    pc = "returned" =>
        \A k \in 1..Len(new_df) :
            LET hist == HistOf(new_df[k].Symbol)
            IN  (PositiveBars(hist) /\ hist[Len(hist)].Low <= hist[Len(hist)].Close)
                    => RowFromLowHolds(new_df[k], hist)

C8_Witness ==
    /\ pc = "returned"
    /\ Len(new_df) = 1
    /\ PositiveBars(HistOf(new_df[1].Symbol))
    /\ Len(HistOf(new_df[1].Symbol)) > Window
    /\ new_df[1].PctFrom52WLow = Num(100)

\* C9: under every interleaving of two refresh runs the slot holds the initial empty
\* table or a complete table returned by one run, and a run writes the slot at most once.
C9_AtomicReplacement ==
    /\ df = <<>> \/ df \in produced
    /\ \A r \in Runs : run_writes[r] <= 1

C9_Witness ==
    /\ \A r \in Runs : run_pc[r] = "done" /\ run_writes[r] = 1
    /\ run_data[1].rows # run_data[2].rows
    /\ Len(df) = 2

\* C10: a script run takes the implicit refresh exactly when the slot is empty at the
\* auto-update check; while a non-empty report is held, only the refresh button
\* starts a fetch.
C10_ImplicitRefresh ==
    [][/\ (pc = "auto" /\ pc' = "control") =>
              /\ auto_ran' <=> (df = <<>>)
              /\ auto_ran' <=> (nfetch' = nfetch + 1)
       /\ (df # <<>> /\ nfetch' # nfetch) => (pc = "control" /\ button)]_vars

C10_Witness ==
    /\ pc = "control"
    /\ auto_ran
    /\ nfetch >= 2
    /\ df = <<>>

====
